---- MODULE Spec2Model ----
(***************************************************************************)
(* A model of util/bloom.cc: the BloomFilterPolicy constructor (probe      *)
(* count derivation), CreateFilter (filter construction, appended to a     *)
(* caller-owned buffer) and KeyMayMatch (filter query).                    *)
(*                                                                         *)
(* Machine integers keep their width.  A uint32_t is a pair <<hi, lo>> of  *)
(* 16-bit halves.  A size_t (64 bits) is a record [hi, lo] standing for    *)
(* hi * 2^58 + lo, with 0 <= hi <= 64 and lo a small signed offset, so     *)
(* that values near 0, near 2^61 and near 2^64 (what a negative int        *)
(* becomes) are all exact.                                                 *)
(***************************************************************************)
EXTENDS Integers, Sequences, FiniteSets, TLC

VARIABLES
  policy,          \* the BloomFilterPolicy object last constructed
  dst,             \* the caller's output buffer (std::string), a byte sequence
  segs,            \* history: one record per completed CreateFilter call
  ret,             \* what the last call returned, or how it ended
  char_is_signed   \* whether plain char is signed in this build

vars == <<policy, dst, segs, ret, char_is_signed>>

---------------------------------------------------------------------------
(* Bounds of the model.                                                    *)

\* longest key sequence handed to one CreateFilter call
MaxKeys == 2

\* most CreateFilter calls made on one buffer
MaxFilters == 2

\* the constructor arguments of SpecPolicy are -MaxBitsPerKey .. MaxBitsPerKey
\* and the extreme ones
MaxBitsPerKey == 64

---------------------------------------------------------------------------
(* Bit operations on machine words.                                        *)

RECURSIVE BitOr(_, _, _)
\* a | b on w-bit operands
BitOr(a, b, w) ==
  IF w = 0 THEN 0
  ELSE (IF a % 2 = 1 \/ b % 2 = 1 THEN 1 ELSE 0)
       + 2 * BitOr(a \div 2, b \div 2, w - 1)

RECURSIVE BitAnd(_, _, _)
\* a & b on w-bit operands
BitAnd(a, b, w) ==
  IF w = 0 THEN 0
  ELSE (IF a % 2 = 1 /\ b % 2 = 1 THEN 1 ELSE 0)
       + 2 * BitAnd(a \div 2, b \div 2, w - 1)

RECURSIVE Shl1(_)
\* 1 << s
Shl1(s) == IF s = 0 THEN 1 ELSE 2 * Shl1(s - 1)

---------------------------------------------------------------------------
(* uint32_t: <<hi, lo>> is hi * 65536 + lo.                                *)

\* h + delta, wrapping at 2^32
U32Add(a, b) ==
  LET lo == a[2] + b[2]
  IN  <<(a[1] + b[1] + lo \div 65536) % 65536, lo % 65536>>

\* h >> 17
U32Shr17(h) == <<0, h[1] \div 2>>

\* h << 15, the bits shifted past bit 31 dropped
U32Shl15(h) ==
  <<((h[1] % 2) * 65536 + h[2]) \div 2, (h[2] % 2) * 32768>>

\* a | b
U32Or(a, b) == <<BitOr(a[1], b[1], 16), BitOr(a[2], b[2], 16)>>

\* (h >> 17) | (h << 15)
RotateRight17(h) == U32Or(U32Shr17(h), U32Shl15(h))

---------------------------------------------------------------------------
(* size_t: [hi, lo] is hi * 2^58 + lo modulo 2^64.                         *)

\* 2^64 in units of 2^58
SizeUnits == 64

\* the normal form of hi * 2^58 + lo modulo 2^64
SzNorm(hi, lo) ==
  LET h == hi % SizeUnits
  IN  IF lo < 0 THEN [hi |-> IF h = 0 THEN SizeUnits ELSE h, lo |-> lo]
      ELSE [hi |-> h, lo |-> lo]

\* the conversion int -> size_t: a negative i becomes 2^64 + i
SzOfInt(i) == SzNorm(0, i)

SzAdd(a, b) == SzNorm(a.hi + b.hi, a.lo + b.lo)

\* a * b modulo 2^64 (the 2^116 term vanishes)
SzMul(a, b) == SzNorm(a.hi * b.lo + b.hi * a.lo, a.lo * b.lo)

\* a < b, unsigned
SzLess(a, b) == a.hi < b.hi \/ (a.hi = b.hi /\ a.lo < b.lo)

\* a / 8, exact for the values the model reaches (a.hi a multiple of 8:
\* a is within a small offset of 0 or of 2^64)
SzDiv8(a) == [hi |-> a.hi \div 8, lo |-> a.lo \div 8]

\* whether a is a small value, held in lo alone
SzIsSmall(a) == a.hi = 0

---------------------------------------------------------------------------
(* The external hash (util/hash.h): a deterministic 32-bit hash of a byte  *)
(* string and a seed.  The values are those of LevelDB's Hash with seed    *)
(* 0xbc9f1d34 on the keys of the model.                                    *)

\* the keys a caller builds filters from
Keys == {"alpha", "beta", "gamma"}

\* a key no filter of the model is built from
AbsentKey == "zzz-not-present"

\* the seed BloomHash passes
BloomSeed == <<48287, 7476>>

Hash(key, seed) ==
  CASE key = "alpha" -> <<58389, 24458>>
    [] key = "beta" -> <<54822, 15624>>
    [] key = "gamma" -> <<34960, 48956>>
    [] key = "zzz-not-present" -> <<18236, 33244>>

BloomHash(key) == Hash(key, BloomSeed)

---------------------------------------------------------------------------
(* The constructor: BloomFilterPolicy(int bits_per_key).                   *)

\* a variant that rounds the product to the nearest integer
TimesLn2Rounded(b) ==
  IF b >= 0 THEN (b * 69 + 50) \div 100 ELSE -(((-b) * 69 + 50) \div 100)

\* bits_per_key * 0.69 truncated toward zero, as the conversion to an
\* integer type truncates.  0.69 is taken as 69/100: the double product
\* differs from the exact one only at multiples of 100 (first at 300, where
\* it gives 206 for 207), far above the clamp at 30.
TimesLn2(b) ==
  IF b >= 0 THEN (b * 69) \div 100 ELSE -(((-b) * 69) \div 100)

\* static_cast<size_t>(double): the outcomes of the conversion of the
\* truncated value t.  A negative t is not representable in size_t and the
\* conversion is undefined: the build either wraps it modulo 2^64 (the
\* signed conversion instruction of x86-64) or saturates it to 0 (the
\* unsigned conversion instruction of AArch64).
DoubleToSize(t) ==
  IF t >= 0 THEN {SzOfInt(t)} ELSE {SzOfInt(t), SzOfInt(0)}

\* a variant without the lower clamp
ClampLowMissing(k) == k

\* if (k_ < 1) k_ = 1;
ClampLow(k) == IF SzLess(k, SzOfInt(1)) THEN SzOfInt(1) ELSE k

\* if (k_ > 30) k_ = 30;
ClampHigh(k) == IF SzLess(SzOfInt(30), k) THEN SzOfInt(30) ELSE k

\* the objects the constructor can yield for bits_per_key
BloomFilterPolicy(bits_per_key) ==
  { [bits_per_key_ |-> SzOfInt(bits_per_key),
     k_ |-> ClampHigh(ClampLow(raw))] :
    raw \in DoubleToSize(TimesLn2(bits_per_key)) }

---------------------------------------------------------------------------
(* CreateFilter(keys, n, dst).                                             *)

\* size_t bits = n * bits_per_key_;
RawBits(this, n) == SzMul(SzOfInt(n), this.bits_per_key_)

\* if (bits < 64) bits = 64;
MinBits(bits) == IF SzLess(bits, SzOfInt(64)) THEN SzOfInt(64) ELSE bits

\* a variant that rounds down: bits / 8
FilterBytesFloor(bits) == SzDiv8(bits)

\* size_t bytes = (bits + 7) / 8;
FilterBytes(bits) == SzDiv8(SzAdd(bits, SzOfInt(7)))

\* bits = bytes * 8;
FilterBits(bytes) == SzMul(bytes, SzOfInt(8))

\* whether a std::string of this size can exist: 2^58 bytes and more are
\* beyond any address space, and resize throws (length_error or bad_alloc)
Allocatable(size) == SzIsSmall(size)

\* dst->resize(init_size + bytes, 0);
Resize(buf, size) ==
  [i \in 1..size |-> IF i <= Len(buf) THEN buf[i] ELSE 0]

\* dst->push_back(static_cast<char>(k_));
PushBackK(buf, this) == Append(buf, this.k_.lo % 256)

\* h % bits, h converted to size_t; bits is small and not zero here
U32Mod(h, bits) == ((h[1] % bits) * (65536 % bits) + h[2]) % bits

RECURSIVE BuildProbes(_, _, _, _, _)
\* for (size_t j = 0; j < k_; j++) { bitpos = h % bits; ...; h += delta; }
\* the bit positions the loop visits
BuildProbes(bits, k, h, delta, j) ==
  IF j >= k THEN {}
  ELSE {U32Mod(h, bits)} \cup BuildProbes(bits, k, U32Add(h, delta), delta, j + 1)

RECURSIVE ByteMask(_, _, _)
\* the bits (1 << (bitpos % 8)) of the positions that fall in byte a of array
ByteMask(positions, a, b) ==
  IF b >= 8 THEN 0
  ELSE (IF 8 * a + b \in positions THEN Shl1(b) ELSE 0)
       + ByteMask(positions, a, b + 1)

\* a variant with array = &(*dst)[0]
SetBitsFromStart(buf, init_size, positions) ==
  [i \in 1..Len(buf) |-> BitOr(buf[i], ByteMask(positions, i - 1, 0), 8)]

\* array[bitpos/8] |= (1 << (bitpos % 8)) for each position visited, with
\* array = &(*dst)[init_size]
SetBits(buf, init_size, positions) ==
  [i \in 1..Len(buf) |->
     IF i <= init_size THEN buf[i]
     ELSE BitOr(buf[i], ByteMask(positions, i - init_size - 1, 0), 8)]

RECURSIVE AddKeys(_, _, _, _, _, _)
\* for (int i = 0; i < n; i++) { h = BloomHash(keys[i]); delta = ...; ... }
AddKeys(buf, init_size, bits, k, keys, i) ==
  IF i > Len(keys) THEN buf
  ELSE LET h == BloomHash(keys[i])
       IN  AddKeys(SetBits(buf, init_size,
                           BuildProbes(bits, k, h, RotateRight17(h), 0)),
                   init_size, bits, k, keys, i + 1)

\* h % bits with bits zero is undefined: the division traps (x86-64), or
\* yields a garbage bit position and a write far outside the string
\* (AArch64, where the remainder is h itself)
DivisionByZero == {"division_trap", "wild_write"}

\* the ways the call on buffer buf can end: how it ended, the buffer it
\* leaves, and the bits and bytes it computed
CreateFilterCall(this, keys, buf) ==
  LET n         == Len(keys)
      bytes     == FilterBytes(MinBits(RawBits(this, n)))
      bits      == FilterBits(bytes)
      init_size == Len(buf)
      size      == SzAdd(SzOfInt(init_size), bytes)
  IN  IF ~Allocatable(size)
      THEN {[status |-> "bad_alloc", dst |-> buf,
             bits |-> bits, bytes |-> bytes]}
      ELSE LET pushed == PushBackK(Resize(buf, size.lo), this)
           IN  IF n > 0 /\ this.k_.lo > 0 /\ bits = SzOfInt(0)
               THEN {[status |-> u, dst |-> pushed,
                      bits |-> bits, bytes |-> bytes] : u \in DivisionByZero}
               ELSE {[status |-> "ok",
                      dst |-> AddKeys(pushed, init_size, bits.lo, this.k_.lo,
                                      keys, 1),
                      bits |-> bits, bytes |-> bytes]}

---------------------------------------------------------------------------
(* KeyMayMatch(key, bloom_filter).                                         *)

\* the conversion of a char to size_t.  Where char
\* is signed a byte of 128 and more is negative and becomes 2^64 - 256 + byte.
CharToSize(byte, signed) ==
  IF signed /\ byte >= 128 THEN SzOfInt(byte - 256) ELSE SzOfInt(byte)

\* (array[bitpos/8] & (1 << (bitpos % 8))) == 0
BitIsClear(array, bitpos) ==
  BitAnd(array[bitpos \div 8 + 1], Shl1(bitpos % 8), 8) = 0

RECURSIVE AllProbesSet(_, _, _, _, _, _)
\* for (size_t j = 0; j < k; j++) { if (bit clear) return false; h += delta; }
\* return true;
AllProbesSet(array, bits, k, h, delta, j) ==
  IF j >= k THEN TRUE
  ELSE IF BitIsClear(array, U32Mod(h, bits)) THEN FALSE
  ELSE AllProbesSet(array, bits, k, U32Add(h, delta), delta, j + 1)

\* if (len < 2) return false;
TooShort(len) == len < 2

\* a variant that tests k >= 30
IsReservedFrom30(k) == SzLess(SzOfInt(29), k)

\* a variant that tests k > 31
IsReservedAbove31(k) == SzLess(SzOfInt(31), k)

\* if (k > 30) return true;
IsReserved(k) == SzLess(SzOfInt(30), k)

\* a variant that probes with the matcher's own k_
MatchProbesOwn(this, bloom_filter, signed) == this.k_

\* const size_t k = array[len-1]: the probe count encoded in the filter
MatchProbes(this, bloom_filter, signed) ==
  CharToSize(bloom_filter[Len(bloom_filter)], signed)

\* a variant that tests the reserved encoding before the length
KeyMayMatchReservedFirst(this, key, bloom_filter, signed) ==
  LET len == Len(bloom_filter)
  IN  IF len < 1 THEN FALSE
      ELSE IF IsReserved(MatchProbes(this, bloom_filter, signed)) THEN TRUE
      ELSE IF TooShort(len) THEN FALSE
      ELSE LET h == BloomHash(key)
           IN  AllProbesSet(bloom_filter, (len - 1) * 8,
                            MatchProbes(this, bloom_filter, signed).lo, h,
                            RotateRight17(h), 0)

\* the answer of this->KeyMayMatch(key, bloom_filter)
KeyMayMatchCall(this, key, bloom_filter, signed) ==
  LET len == Len(bloom_filter)
  IN  IF TooShort(len) THEN FALSE
      ELSE LET bits == (len - 1) * 8
               k    == MatchProbes(this, bloom_filter, signed)
               h    == BloomHash(key)
           IN  IF IsReserved(k) THEN TRUE
               ELSE AllProbesSet(bloom_filter, bits, k.lo, h,
                                 RotateRight17(h), 0)

---------------------------------------------------------------------------
(* The state machine.                                                      *)

\* the sequences of at most n keys drawn from K, duplicates included
KeySeqs(K, n) == UNION {[1..m -> K] : m \in 0..n}

\* what ret holds when no call has returned yet
NoRet ==
  [op |-> "none", status |-> "ok", n |-> 0, bits |-> SzOfInt(0),
   bytes |-> SzOfInt(0), key |-> "", filter |-> <<>>, seg |-> 0,
   answer |-> FALSE]

\* a failed call ends the process: nothing in the library catches an
\* exception, and a trap or a wild write is no state to go on from
Running == ret.status = "ok"

\* the argument the policy was constructed with, read back from
\* bits_per_key_
BitsPerKeyOf(this) == this.bits_per_key_.lo

\* the bytes completed call i appended, as dst holds them now
Segment(i) == SubSeq(dst, segs[i].init_size + 1, segs[i].end)

\* const FilterPolicy* NewBloomFilterPolicy(int bits_per_key)
NewBloomFilterPolicy(bits_per_key) ==
  /\ Running
  /\ policy' \in BloomFilterPolicy(bits_per_key)
  /\ ret' = [NoRet EXCEPT !.op = "NewBloomFilterPolicy"]
  /\ UNCHANGED <<dst, segs, char_is_signed>>

\* policy->CreateFilter(keys, n, &dst)
CreateFilter(keys) ==
  /\ Running
  /\ \E out \in CreateFilterCall(policy, keys, dst) :
       /\ dst' = out.dst
       /\ segs' = IF out.status = "ok"
                  THEN Append(segs, [this |-> policy, keys |-> keys,
                                     init_size |-> Len(dst),
                                     end |-> Len(out.dst)])
                  ELSE segs
       /\ ret' = [NoRet EXCEPT !.op = "CreateFilter",
                               !.status = out.status, !.n = Len(keys),
                               !.bits = out.bits, !.bytes = out.bytes]
  /\ UNCHANGED <<policy, char_is_signed>>

\* policy->KeyMayMatch(key, bloom_filter); seg is the completed call whose
\* filter bloom_filter is, 0 for bytes that come from elsewhere
KeyMayMatch(key, bloom_filter, seg) ==
  /\ Running
  /\ ret' = [NoRet EXCEPT !.op = "KeyMayMatch", !.key = key,
                          !.filter = bloom_filter, !.seg = seg,
                          !.answer = KeyMayMatchCall(policy, key, bloom_filter,
                                                     char_is_signed)]
  /\ UNCHANGED <<policy, dst, segs, char_is_signed>>

\* the state once a policy has been constructed with an argument from B
InitWith(B) ==
  /\ policy \in UNION {BloomFilterPolicy(b) : b \in B}
  /\ dst = <<>>
  /\ segs = <<>>
  /\ ret = NoRet
  /\ char_is_signed \in BOOLEAN

---------------------------------------------------------------------------
(* Spec: one filter, built on an empty buffer and queried, possibly        *)
(* through a policy constructed later with another argument; and, in a    *)
(* process that builds none, queries on a few filters from elsewhere.      *)

\* with at most MaxKeys keys: fewer than 64 bits (0, 1, 10), exactly 64
\* (32 with two keys), more than 64 and no multiple of 8 (65, 70)
BitsPerKey == {-8, -1, 0, 1, 10, 32, 65, 70}

\* m bytes of value v
Fill(m, v) == [i \in 1..m |-> v]

\* filters no policy of the model builds: probe counts 0, 3 and 29 over
\* full and empty bit arrays, a reserved probe count, a lone byte
ForeignFilters ==
  {Append(Fill(8, 255), 0), Append(Fill(8, 255), 3), Append(Fill(1, 255), 29),
   Append(Fill(8, 0), 3), Append(Fill(8, 0), 200), <<3>>}

Init == InitWith(BitsPerKey)

Next ==
  \/ \E b \in BitsPerKey : NewBloomFilterPolicy(b)
  \/ \E keys \in KeySeqs(Keys, MaxKeys) : dst = <<>> /\ CreateFilter(keys)
  \/ \E key \in Keys \cup {AbsentKey} : \E i \in 1..Len(segs) :
       KeyMayMatch(key, Segment(i), i)
  \/ \E key \in Keys \cup {AbsentKey} : \E f \in ForeignFilters :
       dst = <<>> /\ KeyMayMatch(key, f, 0)

Spec == Init /\ [][Next]_vars

---------------------------------------------------------------------------
(* SpecPolicy: the constructor alone, over a wide range of arguments.      *)

\* arguments far from the range that matters; 69 times the largest is the
\* largest product the model checker's integers hold
ExtremeArgs == {-31000000, -1000, 1000, 31000000}

PolicyArgs == ((-MaxBitsPerKey)..MaxBitsPerKey) \cup ExtremeArgs

InitPolicy == InitWith(PolicyArgs)

NextPolicy == \E b \in PolicyArgs : NewBloomFilterPolicy(b)

SpecPolicy == InitPolicy /\ [][NextPolicy]_vars

---------------------------------------------------------------------------
(* SpecQuery: KeyMayMatch on filters that no CreateFilter call of this     *)
(* process built: every trailing byte over a few bit arrays, and the       *)
(* filters too short to hold both.                                         *)

QueryBitsPerKey == {-8, 10}

BitArrays == {Fill(1, 0), Fill(1, 255), Fill(8, 0), Fill(8, 255)}

\* trailing bytes around the limits: 0, 30 | 31, 127 | 128, 255
TrailingBytes == {0, 1, 29, 30, 31, 32, 126, 127, 128, 129, 254, 255}

SyntheticFilters ==
  {<<>>} \cup {<<b>> : b \in TrailingBytes}
         \cup {Append(a, b) : a \in BitArrays, b \in TrailingBytes}

InitQuery == InitWith(QueryBitsPerKey)

NextQuery ==
  \/ \E b \in QueryBitsPerKey : NewBloomFilterPolicy(b)
  \/ \E key \in Keys \cup {AbsentKey} : \E f \in SyntheticFilters :
       KeyMayMatch(key, f, 0)

SpecQuery == InitQuery /\ [][NextQuery]_vars

---------------------------------------------------------------------------
(* SpecAppend: filters built one after another on the same buffer.         *)

AppendBitsPerKey == {-1, 10, 40}

\* the key sequences of the calls: none, one key, two keys, and three with
\* a duplicate (at 40 bits per key: 64, 64, 80 and 120 bits)
AppendKeySeqs ==
  {<<>>, <<"alpha">>, <<"beta", "gamma">>, <<"gamma", "alpha", "gamma">>}

InitAppend == InitWith(AppendBitsPerKey)

NextAppend ==
  \/ \E b \in AppendBitsPerKey : NewBloomFilterPolicy(b)
  \/ \E keys \in AppendKeySeqs :
       Len(segs) < MaxFilters /\ CreateFilter(keys)

SpecAppend == InitAppend /\ [][NextAppend]_vars

---------------------------------------------------------------------------
(* Properties.                                                             *)

\* the policies a query of Spec can go through
AnyPolicy == UNION {BloomFilterPolicy(b) : b \in BitsPerKey}

AnyKey == Keys \cup {AbsentKey}

\* the elements of a key sequence
KeysOf(keys) == {keys[i] : i \in 1..Len(keys)}

\* the last call was CreateFilter, on the empty buffer, with keys
BuiltFromKeys == ret.op = "CreateFilter" /\ ret.n > 0

\* C1: no false negatives: CreateFilter on an empty buffer with a non-empty
\* key sequence, under any policy the constructor yields, leaves a filter
\* for which KeyMayMatch answers true on every key of the sequence
NoFalseNegatives ==
  BuiltFromKeys =>
    /\ ret.status = "ok"
    /\ Len(segs) = 1
    /\ \A key \in KeysOf(segs[1].keys) :
         KeyMayMatchCall(policy, key, dst, char_is_signed)

\* C1, for the policies constructed with bits_per_key >= 0 only: there the
\* call completes and every key of the sequence matches
NoFalseNegativesNonNegative ==
  BuiltFromKeys /\ BitsPerKeyOf(policy) >= 0 =>
    /\ ret.status = "ok"
    /\ Len(segs) = 1
    /\ \A key \in KeysOf(segs[1].keys) :
         KeyMayMatchCall(policy, key, dst, char_is_signed)

\* C2: CreateFilter has no failure mode: every call, whatever n and whatever
\* bits_per_key the policy was constructed with, completes, and the bit
\* array has bits >= 64 and bits = bytes * 8
CreateFilterNeverFails ==
  ret.op = "CreateFilter" =>
    /\ ret.status = "ok"
    /\ ~SzLess(ret.bits, SzOfInt(64))
    /\ ret.bits = SzMul(ret.bytes, SzOfInt(8))

\* C2, for the policies constructed with bits_per_key >= 0 only
CreateFilterNeverFailsNonNegative ==
  ret.op = "CreateFilter" /\ BitsPerKeyOf(policy) >= 0 =>
    /\ ret.status = "ok"
    /\ ~SzLess(ret.bits, SzOfInt(64))
    /\ ret.bits = SzMul(ret.bytes, SzOfInt(8))

\* t clamped to 1..30
Clamped(t) == IF t < 1 THEN 1 ELSE IF t > 30 THEN 30 ELSE t

\* floor(b * ln 2), ln 2 taken as 0.693147: exact for |b| <= 1100
FloorLn2(b) == (b * 693147) \div 1000000

\* C3, as stated, on the range it singles out: for bits_per_key from 1 to
\* 44 the probe count is floor(bits_per_key * ln 2) clamped to 1..30
ProbeCountIsFloorLn2 ==
  LET b == BitsPerKeyOf(policy)
  IN  b \in 1..44 => policy.k_ = SzOfInt(Clamped(FloorLn2(b)))

\* C3, amended: for bits_per_key >= -1 the probe count is bits_per_key *
\* 0.69 truncated toward zero and clamped to 1..30; for bits_per_key <= -2,
\* where the conversion of the product is undefined, it lies in 1..30
ProbeCountIsTruncated069 ==
  LET b == BitsPerKeyOf(policy)
  IN  /\ b >= 0 => policy.k_ = SzOfInt(Clamped((69 * b) \div 100))
      /\ b = -1 => policy.k_ = SzOfInt(1)
      /\ b <= -2 => policy.k_.hi = 0 /\ policy.k_.lo \in 1..30

\* C3: a policy constructed with 13 bits per key probes 8 times, where
\* floor(13 * ln 2) is 9
ProbeCountWitness ==
  /\ ret.op = "NewBloomFilterPolicy"
  /\ BitsPerKeyOf(policy) = 13
  /\ policy.k_ = SzOfInt(8)
  /\ FloorLn2(13) = 9

\* C4: every policy the constructor yields, for zero, negative and very
\* large bits_per_key too, has 1 <= k <= 30; bits_per_key = 0 gives k = 1
\* and bits_per_key = 1000 gives k = 30
ProbeCountInRange ==
  /\ policy.k_.hi = 0
  /\ 1 <= policy.k_.lo /\ policy.k_.lo <= 30
  /\ BitsPerKeyOf(policy) = 0 => policy.k_.lo = 1
  /\ BitsPerKeyOf(policy) = 1000 => policy.k_.lo = 30

\* C4: a policy constructed with a very negative bits_per_key, by a build
\* whose conversion wraps, clamped to 30
ProbeCountExtremeWitness ==
  /\ ret.op = "NewBloomFilterPolicy"
  /\ BitsPerKeyOf(policy) = -31000000
  /\ policy.k_.lo = 30

\* C5: the answer of KeyMayMatch on a key and a filter, built here or not,
\* is the same through every policy, and a filter built by one policy
\* answers true for each of its keys when queried through a policy
\* constructed with another bits_per_key
AnswerIndependentOfPolicy ==
  ret.op = "KeyMayMatch" =>
    /\ \A q \in AnyPolicy :
         KeyMayMatchCall(q, ret.key, ret.filter, char_is_signed) = ret.answer
    /\ ret.seg > 0 /\ ret.key \in KeysOf(segs[ret.seg].keys) => ret.answer

\* C5: a key of a filter built with k = 6 was queried through a policy
\* whose own k is 30, and matched
OtherPolicyWitness ==
  /\ ret.op = "KeyMayMatch"
  /\ ret.seg > 0
  /\ ret.key \in KeysOf(segs[ret.seg].keys)
  /\ BitsPerKeyOf(segs[ret.seg].this) = 10
  /\ BitsPerKeyOf(policy) = 70
  /\ policy.k_ # segs[ret.seg].this.k_
  /\ ret.answer

\* C6: KeyMayMatch answers false on every filter of length 0 or 1, whatever
\* the single byte
ShortFilterNeverMatches ==
  ret.op = "KeyMayMatch" /\ Len(ret.filter) < 2 => ~ret.answer

\* C6: a one-byte filter whose byte is above 30 was queried and rejected
ShortFilterWitness ==
  ret.op = "KeyMayMatch" /\ ret.filter = <<255>> /\ ~ret.answer

\* C7: KeyMayMatch answers true for every key on every filter of at least 2
\* bytes whose trailing byte is 31 or more, whatever the bit array
ReservedAlwaysMatches ==
  /\ ret.op = "KeyMayMatch"
  /\ Len(ret.filter) >= 2
  /\ ret.filter[Len(ret.filter)] >= 31
  => ret.answer

\* C7: an all-zero bit array with trailing byte 128, read through a signed
\* char, matched a key no filter holds
ReservedWitness ==
  /\ ret.op = "KeyMayMatch"
  /\ char_is_signed
  /\ ret.key = AbsentKey
  /\ ret.filter = Append(Fill(8, 0), 128)
  /\ ret.answer

\* C8: CreateFilter with no keys appends 8 zero bytes and one byte holding
\* k, and KeyMayMatch answers false on that filter for every key, through
\* every policy
EmptyKeySetMatchesNothing ==
  \A i \in 1..Len(segs) :
    segs[i].keys = <<>> =>
      /\ Segment(i) = Append(Fill(8, 0), segs[i].this.k_.lo)
      /\ \A q \in AnyPolicy : \A key \in AnyKey :
           ~KeyMayMatchCall(q, key, Segment(i), char_is_signed)
      /\ ret.op = "KeyMayMatch" /\ ret.seg = i => ~ret.answer

\* C8: the filter of an empty key set, built by a policy with k = 30, was
\* queried and rejected the key
EmptyKeySetWitness ==
  /\ ret.op = "KeyMayMatch"
  /\ ret.seg > 0
  /\ segs[ret.seg].keys = <<>>
  /\ segs[ret.seg].this.k_.lo = 30
  /\ ~ret.answer

\* max(n * bits_per_key, 64)
AtLeast64(x) == IF x < 64 THEN 64 ELSE x

\* C9: for bits_per_key >= 0, CreateFilter appends exactly
\* ceil(max(n * bits_per_key, 64) / 8) bytes and then one byte holding the
\* policy's k; 8 bytes when n * bits_per_key < 64
SizeAndLayout ==
  \A i \in 1..Len(segs) :
    LET b == BitsPerKeyOf(segs[i].this)
        n == Len(segs[i].keys)
        f == Segment(i)
    IN  b >= 0 =>
          /\ Len(f) = (AtLeast64(n * b) + 7) \div 8 + 1
          /\ f[Len(f)] = segs[i].this.k_.lo
          /\ n * b < 64 => Len(f) = 8 + 1

\* C9: a filter of 70 bits, rounded up to 9 bytes, and its k byte
SizeAndLayoutWitness ==
  /\ Len(segs) = 1
  /\ Len(segs[1].keys) = 1
  /\ BitsPerKeyOf(segs[1].this) = 70
  /\ Len(dst) = 10
  /\ dst[10] = 30

\* the filter completed call i appends to an empty buffer
Fresh(i) ==
  (CHOOSE out \in CreateFilterCall(segs[i].this, segs[i].keys, <<>>) : TRUE).dst

\* C10: on a buffer that several CreateFilter calls appended to, the bytes
\* of every completed call are still what that call appends to an empty
\* buffer, the calls' segments follow one another from the start of the
\* buffer, and each segment answers true for all of its own keys
AppendOnly ==
  /\ \A i \in 1..Len(segs) :
       /\ segs[i].init_size = IF i = 1 THEN 0 ELSE segs[i - 1].end
       /\ segs[i].end <= Len(dst)
       /\ Segment(i) = Fresh(i)
       /\ \A key \in KeysOf(segs[i].keys) :
            KeyMayMatchCall(policy, key, Segment(i), char_is_signed)
  /\ ret.status = "ok" /\ Len(segs) > 0 => segs[Len(segs)].end = Len(dst)

\* C10: two filters of different policies and keys, one after the other
AppendOnlyWitness ==
  /\ Len(segs) = 2
  /\ segs[1].this # segs[2].this
  /\ segs[1].keys = <<"alpha">>
  /\ segs[2].keys = <<"beta", "gamma">>
  /\ segs[2].init_size = segs[1].end
  /\ Len(dst) = segs[2].end

====
